---- MODULE Spec2Model ----
(***************************************************************************)
(* The jotform-worker scripts: four revisions of one batch job that reads  *)
(* pending submissions, fetches every referenced file from the origin      *)
(* host, stores it in the bucket and records it in provider_images.        *)
(*                                                                         *)
(*   direct   src/worker.js 1-107     fetches file.originalUrl             *)
(*   index    src/worker.js 109-252   fetches /file/<submission>/<index>   *)
(*   profile  src/unnamed/part_000    direct + provider_profiles.images    *)
(*   answers  src/unnamed/part_001    raw_payload.answers, upload controls *)
(*                                                                         *)
(* A JavaScript string is the sequence of its tokens, "/" being a token of *)
(* its own, so that split("/") and the path template are computed.         *)
(***************************************************************************)
EXTENDS Integers, Sequences, FiniteSets, TLC

VARIABLES variant, configOk, table, profiles, pc, runNo, exitCode, thrown,
          fatalLogged, submissions, si, ki, fi, files, fileIndex, cur,
          storage, audit, jobs, events, lastProfile, faults, clean, snap

vars == <<variant, configOk, table, profiles, pc, runNo, exitCode, thrown,
          fatalLogged, submissions, si, ki, fi, files, fileIndex, cur,
          storage, audit, jobs, events, lastProfile, faults, clean, snap>>

(* ------------------------------ bounds -------------------------------- *)

\* file references (answer entries, for raw_payload) in the whole pending table
MaxFiles == 2
\* failures the collaborators (origin, bucket, database) inject in one behaviour
MaxFaults == 1

FileUriVariants == {"direct", "index", "profile"}
Sids == <<"S1", "S2">>
Fields == <<"f1", "f2">>

(* --------------------------- JavaScript values ------------------------ *)

Slash == "/"
U1 == <<"a", Slash, "img.jpg">>
U2 == <<"b", Slash, "img.jpg">>
Urls == {U1, U2}

JsUndefined == [kind |-> "undefined", str |-> <<>>]
JsString(s) == [kind |-> "string", str |-> s]
UrlValues == {JsString(u) : u \in Urls}

\* a value that may be a string, an array of strings, or neither
JsScalar(v) == [kind |-> v.kind, str |-> v.str, arr |-> <<>>]
JsArray(a) == [kind |-> "array", str |-> <<>>, arr |-> a]
JsNull == [kind |-> "null", str |-> <<>>, arr |-> <<>>]
JsAbsent == [kind |-> "undefined", str |-> <<>>, arr |-> <<>>]
JsNotArray == [kind |-> "string", str |-> <<"x">>, arr |-> <<>>]

IsArray(v) == v.kind = "array"

RECURSIVE LastSlash(_, _)
LastSlash(s, i) ==
  IF i = 0 THEN 0 ELSE IF s[i] = Slash THEN i ELSE LastSlash(s, i - 1)

\* s.split("/").pop()
SplitPop(s) == SubSeq(s, LastSlash(s, Len(s)) + 1, Len(s))

\* `${submissionId}/${fieldId}/${filename}`
StoragePath(submissionId, fieldId, filename) ==
  <<submissionId, Slash, fieldId, Slash>> \o filename

\* `${STORAGE_PUBLIC_URL}/${path}`
PublicUrl(path) == <<"public", Slash>> \o path

(* ------------------------------ the tables ---------------------------- *)

FileEntry(f, u) == [fieldId |-> f, originalUrl |-> u]
FileEntries ==
  { FileEntry("f1", JsString(U1)), FileEntry("f1", JsString(U2)),
    FileEntry("f2", JsString(U2)), FileEntry("f1", JsUndefined) }

\* file_uris values holding k references
FileUris(k) ==
  IF k = 0 THEN {JsAbsent, JsNull, JsNotArray, JsArray(<<>>)}
  ELSE {JsArray(a) : a \in [1..k -> FileEntries]}

FileRow(i, fu) == [submission_id |-> Sids[i], file_uris |-> fu]

FileTables ==
  {<<>>}
  \cup UNION {{<<FileRow(1, a)>> : a \in FileUris(k)} : k \in 0..MaxFiles}
  \cup UNION {UNION {{<<FileRow(1, a), FileRow(2, b)>> :
                        a \in FileUris(k), b \in FileUris(l)} :
                     l \in 0..(MaxFiles - k)} : k \in 0..MaxFiles}

UploadAnswer(answer) == [kind |-> "object", type |-> "control_fileupload", answer |-> answer]
TextBox == [kind |-> "object", type |-> "control_textbox", answer |-> JsScalar(JsString(U1))]
NullAnswer == [kind |-> "null", type |-> "", answer |-> JsAbsent]

NoAnswer == [kind |-> "absent", type |-> "", answer |-> JsAbsent]

\* answers[fieldId] values of size k: an entry counts for the urls it
\* normalises to, and for one when it has none; NoAnswer is a missing key
Answers(k) ==
  IF k = 0 THEN {NoAnswer}
  ELSE {UploadAnswer(JsArray(a)) : a \in [1..k -> UrlValues]}
       \cup (IF k = 1
               THEN {TextBox, NullAnswer, UploadAnswer(JsArray(<<>>))}
                    \cup {UploadAnswer(JsScalar(v)) : v \in UrlValues \cup {JsUndefined}}
               ELSE {})

\* Object.keys(answers) lists the keys in the order they are kept
AnswerObject(a1, a2) ==
  (IF a1.kind = "absent" THEN <<>> ELSE <<[fieldId |-> Fields[1], ans |-> a1]>>)
  \o (IF a2.kind = "absent" THEN <<>> ELSE <<[fieldId |-> Fields[2], ans |-> a2]>>)

\* raw_payload values of size k
Payloads(k) ==
  (IF k = 0 THEN { [kind |-> "null", hasAnswers |-> FALSE, answers |-> <<>>],
                   [kind |-> "object", hasAnswers |-> FALSE, answers |-> <<>>] }
            ELSE {})
  \cup UNION {{[kind |-> "object", hasAnswers |-> TRUE, answers |-> AnswerObject(a1, a2)] :
                 a1 \in Answers(j), a2 \in Answers(k - j)} : j \in 0..k}

PayloadRow(i, p) == [submission_id |-> Sids[i], raw_payload |-> p]

PayloadTables ==
  {<<>>}
  \cup UNION {{<<PayloadRow(1, a)>> : a \in Payloads(k)} : k \in 0..MaxFiles}
  \cup UNION {UNION {{<<PayloadRow(1, a), PayloadRow(2, b)>> :
                        a \in Payloads(k), b \in Payloads(l)} :
                     l \in 0..(MaxFiles - k)} : k \in 0..MaxFiles}

NullImages == [kind |-> "null", arr |-> <<>>]
OldImage ==
  [stored_path |-> <<"old">>, url |-> <<"old">>, fieldId |-> "f0", originalUrl |-> <<"old">>]
\* provider_profiles before the first run: one row holds an image already,
\* the other has images = null
SomeProfiles ==
  [s \in {Sids[i] : i \in 1..Len(Sids)} |->
     IF s = Sids[1] THEN [kind |-> "array", arr |-> <<OldImage>>] ELSE NullImages]
NoProfiles == [s \in {Sids[i] : i \in 1..Len(Sids)} |-> NullImages]

(* ------------------------------ the state ----------------------------- *)

NoCur == [fieldId |-> "", originalUrl |-> <<>>, filename |-> <<>>]
NoCall ==
  [run |-> 0, pos |-> <<0, 0, 0>>, sid |-> "", outcome |-> "none",
   read |-> NullImages, entry |-> OldImage]

\* what every script starts from, whatever the stores hold
Start ==
  /\ pc = "boot"
  /\ runNo = 1
  /\ exitCode = -1
  /\ thrown = "none"
  /\ fatalLogged = FALSE
  /\ submissions = <<>>
  /\ si = 0 /\ ki = 0 /\ fi = 0
  /\ files = <<>>
  /\ fileIndex = 0
  /\ cur = NoCur
  /\ storage = <<>>
  /\ audit = <<>>
  /\ jobs = <<>>
  /\ events = <<>>
  /\ lastProfile = NoCall
  /\ faults = 0
  /\ clean = TRUE
  /\ snap = [storage |-> <<>>, audit |-> <<>>]

\* the three scripts that read file_uris; the environment variables may be unset
Init ==
  /\ variant \in FileUriVariants
  /\ configOk \in BOOLEAN
  /\ table \in FileTables
  /\ profiles = (IF variant = "profile" THEN SomeProfiles ELSE NoProfiles)
  /\ Start

\* the script that reads raw_payload; its configuration is written in the file
InitAnswers ==
  /\ variant = "answers"
  /\ configOk = TRUE
  /\ table \in PayloadTables
  /\ profiles = NoProfiles
  /\ Start

\* whether a collaborator may still fail in this behaviour
FaultChoice == IF faults < MaxFaults THEN BOOLEAN ELSE {FALSE}

Pos == <<si, ki, fi>>
Event(e) == [run |-> runNo, pos |-> Pos, ev |-> e]
Sub == submissions[si]

(* ------------------------- src: helper functions ---------------------- *)

\* data.filter(s => Array.isArray(s.file_uris) && s.file_uris.length > 0)
getPendingFileUris(data) ==
  SelectSeq(data, LAMBDA s : IsArray(s.file_uris) /\ Len(s.file_uris.arr) > 0)

\* return data;
getPendingRawPayload(data) == data

getPending(data) ==
  IF variant = "answers" THEN getPendingRawPayload(data) ELSE getPendingFileUris(data)

\* sub.raw_payload?.answers || {}, as the list of its keys' entries
AnswersOf(sub) ==
  IF sub.raw_payload.kind = "object" /\ sub.raw_payload.hasAnswers
    THEN sub.raw_payload.answers
    ELSE <<>>

\* ans?.type === "control_fileupload"
IsFileUpload(ans) == ans.kind = "object" /\ ans.type = "control_fileupload"

\* a slip: a scalar answer is dropped instead of wrapped
AnswerUrlsArrayOnly(ans) == IF IsArray(ans.answer) THEN ans.answer.arr ELSE <<>>

\* Array.isArray(ans.answer) ? ans.answer : [ans.answer]
AnswerUrls(ans) ==
  IF IsArray(ans.answer)
    THEN ans.answer.arr
    ELSE <<[kind |-> ans.answer.kind, str |-> ans.answer.str]>>

\* what fetch() is asked for
DirectLocator(originalUrl) ==
  [kind |-> "url", url |-> originalUrl, sid |-> "", idx |-> 0, fieldId |-> ""]
IndexLocator(submissionId, index) ==
  [kind |-> "index", url |-> <<>>, sid |-> submissionId, idx |-> index, fieldId |-> ""]
FieldLocator(submissionId, fieldId) ==
  [kind |-> "field", url |-> <<>>, sid |-> submissionId, idx |-> 0, fieldId |-> fieldId]

Locator ==
  CASE variant = "index" -> IndexLocator(Sub.submission_id, fileIndex)
    [] variant = "answers" -> FieldLocator(Sub.submission_id, cur.fieldId)
    [] OTHER -> DirectLocator(cur.originalUrl)

\* the bucket's upload: an existing key is an error unless upsert is set
BucketUpload(store, path, body, upsert, serviceError) ==
  IF serviceError \/ (~upsert /\ path \in DOMAIN store)
    THEN [error |-> TRUE, store |-> store]
    ELSE [error |-> FALSE, store |-> (path :> body) @@ store]

\* a slip: the upload without upsert
uploadToStorageNoUpsert(store, path, body, serviceError) ==
  BucketUpload(store, path, body, FALSE, serviceError)

\* supabase.storage.from(BUCKET).upload(path, buffer, { upsert: true, contentType })
uploadToStorage(store, path, body, serviceError) ==
  BucketUpload(store, path, body, TRUE, serviceError)

\* the row saveRecord / saveImageRecord inserts
AuditRow(submissionId, fieldId, originalUrl, storedPath) ==
  [submission_id |-> submissionId, field_id |-> fieldId,
   original_url |-> originalUrl, stored_path |-> storedPath]

\* a slip: the collection read is not merged
UpdatedImagesReplaced(images, newImage) == <<newImage>>

\* Array.isArray(data.images) ? [...data.images] : []; updatedImages.push(newImage)
UpdatedImages(images, newImage) ==
  (IF images.kind = "array" THEN images.arr ELSE <<>>) \o <<newImage>>

\* if (!dl) continue;
AfterDownload(ok) == IF ok THEN "upload" ELSE "fileLoop"
\* a slip: the upload's result is not looked at
AfterUploadUnchecked(ok) == "save"

\* if (!uploaded) continue;
AfterUpload(ok) == IF ok THEN "save" ELSE "fileLoop"
\* the profile variant calls updateProfileImages after saveImageRecord
AfterSave == IF variant = "profile" THEN "profile" ELSE "fileLoop"

\* a slip: no fileIndex++ before the continue of a failed download
IndexAfterDownloadFailedKept(index) == index

\* the three fileIndex++ of the index variant
IndexAfterDownloadFailed(index) == index + 1
IndexAfterUploadFailed(index) == index + 1
IndexAfterStored(index) == index + 1

(* ------------------------------- actions ------------------------------ *)

\* the top-level check of the environment variables
Boot ==
  /\ pc = "boot"
  /\ IF ~configOk
       THEN pc' = "exited" /\ exitCode' = 1
       ELSE pc' = "getPending" /\ UNCHANGED exitCode
  /\ UNCHANGED <<variant, configOk, table, profiles, runNo, thrown, fatalLogged,
                 submissions, si, ki, fi, files, fileIndex, cur, storage, audit,
                 jobs, events, lastProfile, faults, clean, snap>>

\* const submissions = await getPending();
GetPending ==
  /\ pc = "getPending"
  /\ \E error \in FaultChoice :
       /\ faults' = IF error THEN faults + 1 ELSE faults
       /\ clean' = (clean /\ ~error)
       /\ IF error
            THEN /\ pc' = "rejected"
                 /\ thrown' = "enumeration"
                 /\ UNCHANGED <<submissions, si>>
            ELSE /\ pc' = "subLoop"
                 /\ submissions' = getPending(table)
                 /\ si' = 1
                 /\ UNCHANGED thrown
  /\ UNCHANGED <<variant, configOk, table, profiles, runNo, exitCode, fatalLogged,
                 ki, fi, files, fileIndex, cur, storage, audit, jobs, events,
                 lastProfile, snap>>

\* run().catch(err => console.error("FATAL:", err)): the rejection is handled,
\* nothing sets an exit code, the process ends with status 0
RunCatch ==
  /\ pc = "rejected"
  /\ variant # "answers"
  /\ fatalLogged' = TRUE
  /\ exitCode' = 0
  /\ pc' = "exited"
  /\ UNCHANGED <<variant, configOk, table, profiles, runNo, thrown, submissions,
                 si, ki, fi, files, fileIndex, cur, storage, audit, jobs, events,
                 lastProfile, faults, clean, snap>>

\* run(); with no handler: the runtime reports the unhandled rejection and,
\* depending on its version, ends with status 1 or only warns and ends with 0
UnhandledRejection ==
  /\ pc = "rejected"
  /\ variant = "answers"
  /\ exitCode' \in {0, 1}
  /\ pc' = "exited"
  /\ UNCHANGED <<variant, configOk, table, profiles, runNo, thrown, fatalLogged,
                 submissions, si, ki, fi, files, fileIndex, cur, storage, audit,
                 jobs, events, lastProfile, faults, clean, snap>>

\* for (const sub of submissions) { ... } console.log("Worker finished.")
SubLoop ==
  /\ pc = "subLoop"
  /\ IF si > Len(submissions)
       THEN /\ pc' = "finished"
            /\ UNCHANGED <<ki, fi, files, fileIndex>>
       ELSE IF variant = "answers"
         THEN /\ pc' = "keyLoop"
              /\ ki' = 1
              /\ UNCHANGED <<fi, files, fileIndex>>
         ELSE /\ pc' = "fileLoop"
              /\ files' = Sub.file_uris.arr
              /\ fi' = 1
              /\ fileIndex' = 0
              /\ UNCHANGED ki
  /\ UNCHANGED <<variant, configOk, table, profiles, runNo, exitCode, thrown,
                 fatalLogged, submissions, si, cur, storage, audit, jobs, events,
                 lastProfile, faults, clean, snap>>

\* for (const fieldId of Object.keys(answers)) { if (ans?.type === ...) ... }
KeyLoop ==
  /\ pc = "keyLoop"
  /\ IF ki > Len(AnswersOf(Sub))
       THEN /\ pc' = "subLoop"
            /\ si' = si + 1
            /\ ki' = 0
            /\ UNCHANGED <<fi, files>>
       ELSE IF IsFileUpload(AnswersOf(Sub)[ki].ans)
         THEN /\ pc' = "fileLoop"
              /\ files' = AnswerUrls(AnswersOf(Sub)[ki].ans)
              /\ fi' = 1
              /\ UNCHANGED <<si, ki>>
         ELSE /\ ki' = ki + 1
              /\ UNCHANGED <<pc, si, fi, files>>
  /\ UNCHANGED <<variant, configOk, table, profiles, runNo, exitCode, thrown,
                 fatalLogged, submissions, fileIndex, cur, storage, audit, jobs,
                 events, lastProfile, faults, clean, snap>>

\* the value whose split("/") names the file
UrlOf(file) == IF variant = "answers" THEN file ELSE file.originalUrl
FieldOf(file) == IF variant = "answers" THEN AnswersOf(Sub)[ki].fieldId ELSE file.fieldId

\* for (const file of files) { const filename = originalUrl.split("/").pop(); ...
FileLoop ==
  /\ pc = "fileLoop"
  /\ IF fi > Len(files)
       THEN /\ IF variant = "answers"
                 THEN pc' = "keyLoop" /\ ki' = ki + 1 /\ UNCHANGED si
                 ELSE pc' = "subLoop" /\ si' = si + 1 /\ UNCHANGED ki
            /\ fi' = 0
            /\ files' = <<>>
            /\ fileIndex' = 0
            /\ UNCHANGED <<cur, thrown, clean>>
       ELSE /\ IF UrlOf(files[fi]).kind # "string"
                 \* undefined.split: a TypeError
                 THEN /\ pc' = "rejected"
                      /\ thrown' = "TypeError"
                      /\ clean' = FALSE
                      /\ UNCHANGED cur
                 ELSE /\ pc' = "download"
                      /\ cur' = [fieldId |-> FieldOf(files[fi]),
                                 originalUrl |-> UrlOf(files[fi]).str,
                                 filename |-> SplitPop(UrlOf(files[fi]).str)]
                      /\ UNCHANGED <<thrown, clean>>
            /\ UNCHANGED <<si, ki, fi, files, fileIndex>>
  /\ UNCHANGED <<variant, configOk, table, profiles, runNo, exitCode, fatalLogged,
                 submissions, storage, audit, jobs, events, lastProfile, faults, snap>>

\* downloadOriginal / downloadImage: res.ok, !res.ok, or fetch rejects
Download ==
  /\ pc = "download"
  /\ \E outcome \in (IF faults < MaxFaults THEN {"ok", "http", "network"} ELSE {"ok"}) :
       /\ faults' = IF outcome = "ok" THEN faults ELSE faults + 1
       /\ clean' = (clean /\ outcome = "ok")
       /\ jobs' = Append(jobs, [run |-> runNo, pos |-> Pos,
                                sid |-> Sub.submission_id, locator |-> Locator,
                                fieldId |-> cur.fieldId, filename |-> cur.filename,
                                path |-> StoragePath(Sub.submission_id, cur.fieldId,
                                                     cur.filename)])
       /\ events' = Append(events, Event(CASE outcome = "ok" -> "fetchOk"
                                            [] outcome = "http" -> "fetchHttp"
                                            [] OTHER -> "fetchNetwork"))
       /\ IF outcome = "network"
            THEN /\ pc' = "rejected"
                 /\ thrown' = "network"
                 /\ UNCHANGED <<fi, fileIndex>>
            ELSE /\ pc' = AfterDownload(outcome = "ok")
                 /\ fi' = IF outcome = "ok" THEN fi ELSE fi + 1
                 /\ fileIndex' = IF outcome = "http" /\ variant = "index"
                                   THEN IndexAfterDownloadFailed(fileIndex)
                                   ELSE fileIndex
                 /\ UNCHANGED thrown
  /\ UNCHANGED <<variant, configOk, table, profiles, runNo, exitCode, fatalLogged,
                 submissions, si, ki, files, cur, storage, audit, lastProfile, snap>>

\* const uploaded = await uploadToStorage(path, dl.buffer, dl.contentType)
Upload ==
  /\ pc = "upload"
  /\ \E serviceError \in FaultChoice :
       LET path == StoragePath(Sub.submission_id, cur.fieldId, cur.filename)
           res == uploadToStorage(storage, path, Locator, serviceError)
       IN /\ faults' = IF serviceError THEN faults + 1 ELSE faults
          /\ clean' = (clean /\ ~serviceError)
          /\ storage' = res.store
          /\ events' = Append(events, Event(IF res.error THEN "uploadFail" ELSE "uploadOk"))
          /\ pc' = AfterUpload(~res.error)
          /\ fi' = IF AfterUpload(~res.error) = "fileLoop" THEN fi + 1 ELSE fi
          /\ fileIndex' = IF res.error /\ variant = "index"
                            THEN IndexAfterUploadFailed(fileIndex)
                            ELSE fileIndex
  /\ UNCHANGED <<variant, configOk, table, profiles, runNo, exitCode, thrown,
                 fatalLogged, submissions, si, ki, files, cur, audit, jobs,
                 lastProfile, snap>>

\* await saveRecord(submissionId, fieldId, originalUrl, path): an insert error
\* is dropped (direct, answers) or logged (index, profile), never raised
SaveRecord ==
  /\ pc = "save"
  /\ \E error \in FaultChoice :
       LET path == StoragePath(Sub.submission_id, cur.fieldId, cur.filename)
       IN /\ faults' = IF error THEN faults + 1 ELSE faults
          /\ clean' = (clean /\ ~error)
          /\ audit' = IF error THEN audit
                      ELSE Append(audit, AuditRow(Sub.submission_id, cur.fieldId,
                                                  cur.originalUrl, path))
          /\ events' = Append(events, Event(IF error THEN "auditFail" ELSE "auditOk"))
          /\ pc' = AfterSave
          /\ fi' = IF AfterSave = "fileLoop" THEN fi + 1 ELSE fi
          /\ fileIndex' = IF variant = "index" THEN IndexAfterStored(fileIndex)
                          ELSE fileIndex
  /\ UNCHANGED <<variant, configOk, table, profiles, runNo, exitCode, thrown,
                 fatalLogged, submissions, si, ki, files, cur, storage, jobs,
                 lastProfile, snap>>

\* await updateProfileImages(submissionId, { stored_path, url, fieldId, originalUrl })
UpdateProfileImages ==
  /\ pc = "profile"
  /\ \E outcome \in (IF faults < MaxFaults THEN {"written", "readError", "updateError"}
                     ELSE {"written"}) :
       LET sid == Sub.submission_id
           path == StoragePath(sid, cur.fieldId, cur.filename)
           newImage == [stored_path |-> path, url |-> PublicUrl(path),
                        fieldId |-> cur.fieldId, originalUrl |-> cur.originalUrl]
       IN /\ faults' = IF outcome = "written" THEN faults ELSE faults + 1
          /\ clean' = (clean /\ outcome = "written")
          /\ profiles' = IF outcome = "written"
                           THEN [profiles EXCEPT ![sid] =
                                   [kind |-> "array",
                                    arr |-> UpdatedImages(profiles[sid], newImage)]]
                           ELSE profiles
          /\ lastProfile' = [run |-> runNo, pos |-> Pos, sid |-> sid,
                             outcome |-> outcome, read |-> profiles[sid],
                             entry |-> newImage]
          /\ events' = Append(events, Event("profileCall"))
  /\ pc' = "fileLoop"
  /\ fi' = fi + 1
  /\ UNCHANGED <<variant, configOk, table, runNo, exitCode, thrown, fatalLogged,
                 submissions, si, ki, files, fileIndex, cur, storage, audit, jobs, snap>>

\* run() resolved: the script has nothing left to do and ends with status 0
Finish ==
  /\ pc = "finished"
  /\ pc' = "exited"
  /\ exitCode' = 0
  /\ UNCHANGED <<variant, configOk, table, profiles, runNo, thrown, fatalLogged,
                 submissions, si, ki, fi, files, fileIndex, cur, storage, audit,
                 jobs, events, lastProfile, faults, clean, snap>>

\* after a batch that ran to "Worker finished" the operator starts the script
\* a second time: same pending table, same bucket, same provider_images;
\* snap keeps what the first run left
Rerun ==
  /\ pc = "exited"
  /\ configOk /\ thrown = "none"
  /\ runNo = 1
  /\ pc' = "boot"
  /\ runNo' = runNo + 1
  /\ exitCode' = -1
  /\ thrown' = "none"
  /\ fatalLogged' = FALSE
  /\ submissions' = <<>>
  /\ si' = 0 /\ ki' = 0 /\ fi' = 0
  /\ files' = <<>>
  /\ fileIndex' = 0
  /\ cur' = NoCur
  /\ snap' = [storage |-> storage, audit |-> audit]
  /\ UNCHANGED <<variant, configOk, table, profiles, storage, audit, jobs, events,
                 lastProfile, faults, clean>>

Next ==
  \/ Boot
  \/ GetPending
  \/ RunCatch
  \/ SubLoop
  \/ FileLoop
  \/ Download
  \/ Upload
  \/ SaveRecord
  \/ UpdateProfileImages
  \/ Finish
  \/ Rerun

NextAnswers ==
  \/ Boot
  \/ GetPending
  \/ UnhandledRejection
  \/ SubLoop
  \/ KeyLoop
  \/ FileLoop
  \/ Download
  \/ Upload
  \/ SaveRecord
  \/ Finish
  \/ Rerun

Spec == Init /\ [][Next]_vars

SpecAnswers == InitAnswers /\ [][NextAnswers]_vars

(* ============================== the claims ============================ *)

\* the references getPending returned, as positions <<si, ki, fi>> of a file_uris run
ListedPositions ==
  {p \in (DOMAIN submissions) \X {0} \X (1..MaxFiles) :
     p[3] <= Len(submissions[p[1]].file_uris.arr)}

HasEvent(r, p, e) == \E i \in DOMAIN events : events[i] = [run |-> r, pos |-> p, ev |-> e]
Fetched(r, p) == \E j \in DOMAIN jobs : jobs[j].run = r /\ jobs[j].pos = p
FetchFailedInRun(r) ==
  \E i \in DOMAIN events :
    events[i].run = r /\ events[i].ev \in {"fetchHttp", "fetchNetwork"}

\* C1: in run() of the direct script, when the fetch of a file fails (a non-2xx
\* answer or a network error) only that file is skipped: every listed file of
\* every submission is still attempted and the run reaches "Worker finished".
C1_FetchFailureSkipsOnlyThatFile ==
  (/\ variant = "direct"
   /\ pc = "exited"
   /\ thrown # "TypeError"
   /\ FetchFailedInRun(runNo))
  => (/\ thrown = "none"
      /\ \A p \in ListedPositions : Fetched(runNo, p))

\* the auditOk events, in the order the rows were inserted
AuditEvents == SelectSeq(events, LAMBDA e : e.ev = "auditOk")
JobOf(r, p) == CHOOSE j \in DOMAIN jobs : jobs[j].run = r /\ jobs[j].pos = p
SameFile(e, f) == e.run = f.run /\ e.pos = f.pos

\* C2: every provider_images row refers to a storage key whose object was
\* written earlier in the same run for the same file: the insert of a file comes
\* after that file's fetch succeeded and then its upload succeeded, and a file
\* whose fetch or upload failed has no row.
C2_AuditOnlyAfterStore ==
  LET inserted == AuditEvents
  IN /\ Len(inserted) = Len(audit)
     /\ \A n \in DOMAIN audit :
          /\ audit[n].stored_path \in DOMAIN storage
          /\ Fetched(inserted[n].run, inserted[n].pos)
          /\ audit[n].stored_path = jobs[JobOf(inserted[n].run, inserted[n].pos)].path
     /\ \A i \in DOMAIN events :
          events[i].ev = "auditOk" =>
            /\ i >= 3
            /\ events[i - 1] = [events[i] EXCEPT !.ev = "uploadOk"]
            /\ events[i - 2] = [events[i] EXCEPT !.ev = "fetchOk"]
            /\ \A j \in DOMAIN events :
                 SameFile(events[j], events[i])
                   => events[j].ev \notin {"fetchHttp", "fetchNetwork", "uploadFail"}

\* a run that audited one file and skipped another whose upload failed
C2_Witness ==
  /\ variant \in {"direct", "profile"}
  /\ pc = "exited"
  /\ \E i, j \in DOMAIN events :
       /\ events[i].run = events[j].run
       /\ events[i].ev = "auditOk"
       /\ events[j].ev = "uploadFail"

C4_FatalExitsNonZero ==
  variant = "direct" =>
  /\ ~configOk => /\ pc \in {"boot", "exited"}
                  /\ pc = "exited" => exitCode = 1
                  /\ storage = <<>> /\ audit = <<>>
  /\ (pc = "exited" /\ thrown = "enumeration") =>
       /\ exitCode # 0
       /\ fatalLogged
       /\ ~\E j \in DOMAIN jobs : jobs[j].run = runNo
  /\ (pc = "exited" /\ configOk /\ thrown = "none") => exitCode = 0

\* C5: a missing or malformed reference (a file_uris entry without originalUrl)
\* resolves to zero fetch jobs and never raises: the remaining references of the
\* submission and the later submissions are still processed.
C5_MalformedReferenceNeverRaises ==
  variant = "direct" =>
  /\ thrown # "TypeError"
  /\ (pc = "exited" /\ configOk /\ thrown = "none") =>
       \A p \in ListedPositions :
         submissions[p[1]].file_uris.arr[p[3]].originalUrl.kind = "string"
           => Fetched(runNo, p)

\* C6: in a first run where every fetch, upload and insert succeeds, a
\* submission whose N references have N distinct origin URLs ends with exactly
\* N stored objects under its keys, each with exactly one provider_images row.
C6_DistinctUrlsDistinctObjects ==
  (variant = "direct" /\ pc = "exited" /\ configOk /\ thrown = "none" /\ clean /\ runNo = 1) =>
    \A s \in DOMAIN submissions :
      LET refs == submissions[s].file_uris.arr
          keys == {k \in DOMAIN storage : k[1] = submissions[s].submission_id}
      IN Cardinality({refs[i].originalUrl : i \in DOMAIN refs}) = Len(refs)
           => /\ Cardinality(keys) = Len(refs)
              /\ \A k \in keys :
                   Cardinality({n \in DOMAIN audit : audit[n].stored_path = k}) = 1

\* the row of the pending table with this submission_id
RowOf(sid) == CHOOSE i \in DOMAIN table : table[i].submission_id = sid
\* the urls an upload answer lists: the list itself, or the list of the one url
ListedUrls(answer) ==
  IF answer.kind = "array" THEN answer.arr ELSE <<[kind |-> "string", str |-> answer.str]>>
\* the jobs of run r for the k-th answers entry of submission s, in fetch order
EntryJobs(r, s, k) ==
  SelectSeq(jobs, LAMBDA j : j.run = r /\ j.pos[1] = s /\ j.pos[2] = k)
\* whether every url of the answer is a string
AllUrls(answer) ==
  /\ answer.kind \in {"array", "string"}
  /\ \A i \in DOMAIN answer.arr : answer.arr[i].kind = "string"

\* C7: in the answers script only entries of type control_fileupload produce
\* fetch jobs; an entry that lists k urls produces exactly k jobs, one per url in
\* list order, all with the entry's field id, and an entry whose answer is the
\* single url u produces the jobs of the one-element list [u] (same locator,
\* field id, filename and storage key).
C7_AnswerJobsNormalized ==
  /\ \A j \in DOMAIN jobs :
       LET entry == table[RowOf(jobs[j].sid)].raw_payload.answers[jobs[j].pos[2]]
       IN /\ entry.ans.type = "control_fileupload"
          /\ entry.fieldId = jobs[j].fieldId
          /\ jobs[j].pos[3] <= Len(ListedUrls(entry.ans.answer))
          /\ LET u == ListedUrls(entry.ans.answer)[jobs[j].pos[3]].str
             IN /\ jobs[j].locator = FieldLocator(jobs[j].sid, entry.fieldId)
                /\ jobs[j].filename = SubSeq(u, Len(u), Len(u))
                /\ jobs[j].path = <<jobs[j].sid, Slash, entry.fieldId, Slash>>
                                    \o jobs[j].filename
  /\ (pc = "exited" /\ thrown = "none") =>
       \A s \in DOMAIN table :
         LET payload == table[s].raw_payload
         IN \A k \in DOMAIN payload.answers :
              LET ans == payload.answers[k].ans
                  made == EntryJobs(runNo, s, k)
              IN IF ans.type = "control_fileupload" /\ AllUrls(ans.answer)
                   THEN /\ Len(made) = Len(ListedUrls(ans.answer))
                        /\ \A i \in DOMAIN made : made[i].pos[3] = i
                   ELSE Len(made) = 0

\* a completed run that fetched for an entry whose answer is a single url and
\* for an entry whose answer is a list
C7_Witness ==
  /\ pc = "exited" /\ thrown = "none"
  /\ \E j \in DOMAIN jobs :
       /\ jobs[j].run = runNo
       /\ table[RowOf(jobs[j].sid)].raw_payload.answers[jobs[j].pos[2]].ans.answer.kind
            = "string"
  /\ \E j \in DOMAIN jobs :
       /\ jobs[j].run = runNo
       /\ table[RowOf(jobs[j].sid)].raw_payload.answers[jobs[j].pos[2]].ans.answer.kind
            = "array"

\* whether a raw_payload row holds at least one file reference
HasReference(row) ==
  /\ row.raw_payload.kind = "object"
  /\ row.raw_payload.hasAnswers
  /\ \E k \in DOMAIN row.raw_payload.answers :
       LET ans == row.raw_payload.answers[k].ans
       IN ans.type = "control_fileupload" /\ Len(ListedUrls(ans.answer)) > 0

\* C8: getPending returns exactly the submissions that have a non-empty
\* file-reference collection, in the order the store returned them; a row whose
\* collection is absent, null or empty is excluded.
C8_EnumeratorExcludesEmpty ==
  (pc \notin {"boot", "getPending", "rejected"} /\ thrown # "enumeration") =>
    submissions = SelectSeq(table, HasReference)

\* C9: a second run against the same pending set, with every operation
\* succeeding in both runs, overwrites each key without an upload error and
\* leaves the bucket as the first run left it, and every provider_images row of
\* the first run is still there, followed by a second row for every file.
C9_SecondRunOverwritesAndDuplicates ==
  runNo = 2 =>
    /\ Len(audit) >= Len(snap.audit)
    /\ SubSeq(audit, 1, Len(snap.audit)) = snap.audit
    /\ DOMAIN snap.storage \subseteq DOMAIN storage
    /\ (pc = "exited" /\ clean) =>
         /\ ~\E i \in DOMAIN events : events[i].run = 2 /\ events[i].ev = "uploadFail"
         /\ DOMAIN storage = DOMAIN snap.storage
         /\ \A k \in DOMAIN storage : storage[k] = snap.storage[k]
         /\ audit = snap.audit \o snap.audit

\* a second run completed without a failure over a bucket the first run filled
C9_Witness ==
  /\ runNo = 2 /\ pc = "exited" /\ clean
  /\ Len(snap.audit) >= 2
  /\ Len(audit) = 2 * Len(snap.audit)

\* C10: in the profile script updateProfileImages is called once for each file
\* whose upload succeeded, also when its provider_images insert failed, and for
\* no other file; a call that reads and writes leaves images equal to the
\* collection it read followed by the one new entry, and a call whose read or
\* write fails leaves images as they were and the run goes on.
C10_ProfileAppendsOncePerStoredFile ==
  variant = "profile" =>
    /\ \A i \in DOMAIN events :
         /\ events[i].ev = "profileCall" =>
              /\ i >= 3
              /\ events[i - 1].ev \in {"auditOk", "auditFail"}
              /\ SameFile(events[i - 1], events[i])
              /\ events[i - 2] = [events[i] EXCEPT !.ev = "uploadOk"]
              /\ \A j \in (i + 1)..Len(events) : events[j] # events[i]
              \* the run was not stopped at a file the call was made for
              /\ events[i].run = runNo => ~(thrown # "none" /\ Pos = events[i].pos)
         /\ events[i].ev = "uploadOk" =>
              IF i + 2 <= Len(events)
                THEN events[i + 2] = [events[i] EXCEPT !.ev = "profileCall"]
                ELSE /\ runNo = events[i].run /\ Pos = events[i].pos
                     /\ pc = (IF i = Len(events) THEN "save" ELSE "profile")
    /\ lastProfile.outcome = "written" =>
         LET now == profiles[lastProfile.sid].arr
             was == IF lastProfile.read.kind = "array" THEN lastProfile.read.arr ELSE <<>>
         IN /\ profiles[lastProfile.sid].kind = "array"
            /\ Len(now) = Len(was) + 1
            /\ SubSeq(now, 1, Len(was)) = was
            /\ now[Len(now)] = lastProfile.entry
            /\ lastProfile.entry.stored_path \in DOMAIN storage
    /\ lastProfile.outcome \in {"readError", "updateError"} =>
         profiles[lastProfile.sid] = lastProfile.read

\* a batch that appended one file to a profile that held an image, then had
\* the call for the next file fail, and ran to its end
C10_Witness ==
  /\ variant = "profile"
  /\ pc = "exited"
  /\ thrown = "none"
  /\ lastProfile.outcome = "updateError"
  /\ Len(profiles[lastProfile.sid].arr) = 2
  /\ HasEvent(runNo, <<1, 0, 1>>, "profileCall")
  /\ HasEvent(runNo, <<1, 0, 2>>, "profileCall")

====
